---- MODULE Spec2Model ----
(***************************************************************************)
(* SnapReview (NotesOverlay.py): the two annotation stores of one clip,    *)
(* the note-adding handlers, the export pipeline (get_annotated_frames,    *)
(* get_notes_for_frame, normalize_note, format_notes_for_export) and the   *)
(* save_review workflow, as a state machine.                               *)
(*                                                                         *)
(* Texts are sequences of one-character strings.  A report is the list of  *)
(* lines that format_notes_for_export joins with "\n"; no line of a report *)
(* holds a line break, so the list and the joined string determine each    *)
(* other.                                                                  *)
(***************************************************************************)
EXTENDS Integers, Sequences, FiniteSets, TLC

(***************************************************************************)
(* Bounds of the model.                                                    *)
(***************************************************************************)
\* the clip-relative frames of the clip
ClipFrames == {1, 2}
\* store writes (notes added, native elements drawn) in one behaviour
MaxWrites == 2
\* the wall clock, in minutes, runs from 0 to MaxClock
MaxClock == 1
\* host calls that raise during one run of a handler
MaxFaults == 2
\* the longest text normalize_note is applied to on its own
MaxLen == 5

(***************************************************************************)
(* State.                                                                  *)
(***************************************************************************)
VARIABLES
    store,        \* [node -> [frame -> FrameOrder]]: both paint nodes
    nextId,       \* [node -> the node's paint.nextId]
    marked,       \* the host's marked frames
    playhead,     \* the host's current frame, commands.frame()
    view,         \* the host's active view node, commands.viewNode()
    clock,        \* the wall clock, in minutes
    clipboard,    \* the host clipboard's text, None when never set
    feedback,     \* the messages the latest handler displayed, in order
    disk,         \* what save_review has written to the file system
    pc,           \* the step save_review executes next, "Idle" when it is not running
    locals,       \* the local variables of the running save_review
    steps,        \* the steps the latest save_review has executed, in order
    writes,       \* store writes so far
    hist,         \* the runs of the export pipeline so far (the last two)
    input,        \* the text a pure function is applied to
    output        \* its result, Unset before the call

vars == <<store, nextId, marked, playhead, view, clock, clipboard, feedback, disk,
          pc, locals, steps, writes, hist, input, output>>

\* the clip sits on the timeline after ClipStart frames of another clip, so
\* its global frames differ from its clip-relative frames
ClipStart == Cardinality(ClipFrames)
GlobalFrames == {ClipStart + f : f \in ClipFrames}
AllFrames == ClipFrames \cup GlobalFrames

\* extra_commands.sourceFrame(g) for a global frame of the clip
sourceFrame(g) == g - ClipStart

(***************************************************************************)
(* Characters and texts.                                                   *)
(***************************************************************************)
NL == "\n"
TAB == "\t"
IsSpace(c) == c \in {" ", NL, TAB}

StartsWith(s, p) == Len(s) >= Len(p) /\ SubSeq(s, 1, Len(p)) = p

\* str.strip(): leading and trailing whitespace removed
RECURSIVE LStrip(_)
LStrip(s) ==
    IF s # <<>> /\ IsSpace(s[1]) THEN LStrip(Tail(s)) ELSE s
RECURSIVE RStrip(_)
RStrip(s) ==
    IF s # <<>> /\ IsSpace(s[Len(s)]) THEN RStrip(SubSeq(s, 1, Len(s) - 1)) ELSE s
Strip(s) == RStrip(LStrip(s))

\* text.replace("\n", " ")
ReplaceNewlines(s) == [i \in 1..Len(s) |-> IF s[i] = NL THEN " " ELSE s[i]]

\* "  " in text
HasDoubleSpace(s) == \E i \in 1..(Len(s) - 1) : s[i] = " " /\ s[i + 1] = " "

\* text.replace("  ", " "): one left-to-right pass over non-overlapping pairs,
\* from the leftmost pair on
RECURSIVE ReplaceDoubleSpace(_)
ReplaceDoubleSpace(s) ==
    IF ~HasDoubleSpace(s) THEN s
    ELSE LET i == CHOOSE i \in 1..(Len(s) - 1) :
                     /\ s[i] = " " /\ s[i + 1] = " "
                     /\ \A j \in 1..(i - 1) : ~(s[j] = " " /\ s[j + 1] = " ")
         IN  SubSeq(s, 1, i) \o ReplaceDoubleSpace(SubSeq(s, i + 2, Len(s)))

\* while "  " in text: text = text.replace("  ", " ")
RECURSIVE CollapseSpaces(_)
CollapseSpaces(s) ==
    IF HasDoubleSpace(s) THEN CollapseSpaces(ReplaceDoubleSpace(s)) ELSE s

\* unwrap_note that leaves the bullet prefix in place
unwrap_noteMutant(text) == Strip(CollapseSpaces(ReplaceNewlines(text)))

\* unwrap_note
unwrap_note(text) ==
    LET t1 == IF StartsWith(text, <<"-", " ">>) THEN SubSeq(text, 3, Len(text)) ELSE text
        t2 == ReplaceNewlines(t1)
        t3 == CollapseSpaces(t2)
    IN  Strip(t3)

\* Python's None (and the empty string, equally falsy) as a text
None == <<>>

\* normalize_note that takes no leading "-" of the content for a bullet
normalize_noteMutant(text) ==
    IF unwrap_note(text) = <<>> THEN None ELSE <<"-", " ">> \o unwrap_note(text)

\* normalize_note: the normalized line, or None for a blank note
normalize_note(text) ==
    LET unwrapped == unwrap_note(text)
        content_after_dash ==
            IF Len(unwrapped) > 1 THEN Strip(Tail(unwrapped)) ELSE <<>>
    IN  IF unwrapped = <<>> THEN None
        ELSE IF ~StartsWith(unwrapped, <<"-">>) THEN <<"-", " ">> \o unwrapped
        ELSE IF content_after_dash = <<>> THEN None
        ELSE IF StartsWith(unwrapped, <<"-", " ">>) THEN unwrapped
        ELSE <<"-", " ">> \o content_after_dash

(***************************************************************************)
(* The annotation stores.  An element is named "kind:id:frame:label" in    *)
(* the code; here it is the record of those four parts, with its .text     *)
(* property (hasText: whether the property exists).  store[node][frame] is *)
(* the FrameOrder of (node, frame).                                        *)
(***************************************************************************)
SourcePaint == "sourceGroup000000_paint"
SequencePaint == "defaultSequence_p_sourceGroup000000"
Nodes == {SourcePaint, SequencePaint}

ShadowLabels == {"shadow0", "shadow1", "shadow2", "shadow3",
                 "shadow4", "shadow5", "shadow6", "shadow7"}
shadow_label(i) ==
    CASE i = 0 -> "shadow0" [] i = 1 -> "shadow1" [] i = 2 -> "shadow2"
      [] i = 3 -> "shadow3" [] i = 4 -> "shadow4" [] i = 5 -> "shadow5"
      [] i = 6 -> "shadow6" [] OTHER -> "shadow7"

drawing_types == {"stroke", "line", "rect", "circle", "pen", "arrow"}

Element(kind, id, frame, label, hasText, text) ==
    [kind |-> kind, id |-> id, frame |-> frame, label |-> label,
     hasText |-> hasText, text |-> text]

\* any(element.endswith(s) for s in shadow_labels)
is_shadow(e) == e.label \in ShadowLabels

EmptyStore == [n \in Nodes |-> [f \in AllFrames |-> <<>>]]

\* sorted(), descending
RECURSIVE sortedMutant(_)
sortedMutant(S) ==
    IF S = {} THEN <<>>
    ELSE LET m == CHOOSE x \in S : \A y \in S : y <= x
         IN  <<m>> \o sortedMutant(S \ {m})

\* a set of integers as the ascending list sorted() returns
RECURSIVE sorted(_)
sorted(S) ==
    IF S = {} THEN <<>>
    ELSE LET m == CHOOSE x \in S : \A y \in S : x <= y
         IN  <<m>> \o sorted(S \ {m})

\* get_annotated_frames that looks only at the frames the host has marked
get_annotated_framesMutant(st, node) ==
    sorted({f \in AllFrames :
              /\ \E i \in 1..Len(st[node][f]) : ~is_shadow(st[node][f][i])
              /\ (IF node = "sourceGroup000000_paint" THEN f + ClipStart ELSE f) \in marked})

\* get_annotated_frames: the frames of a node with an element that is no shadow
get_annotated_frames(st, node) ==
    sorted({f \in AllFrames :
              \E i \in 1..Len(st[node][f]) : ~is_shadow(st[node][f][i])})

\* the loop of get_notes_for_frame over the FrameOrder, from element i on
RECURSIVE notes_loop(_, _, _, _)
notes_loop(order, i, texts, has_drawings) ==
    IF i > Len(order) THEN [texts |-> texts, has_drawings |-> has_drawings]
    ELSE LET e == order[i]
             seen == {texts[j] : j \in 1..Len(texts)}
         IN  IF is_shadow(e) THEN notes_loop(order, i + 1, texts, has_drawings)
             ELSE IF e.hasText
                  THEN IF e.text # <<>> /\ Strip(e.text) # <<>> /\ e.text \notin seen
                       THEN notes_loop(order, i + 1, Append(texts, e.text), has_drawings)
                       ELSE notes_loop(order, i + 1, texts, has_drawings)
             ELSE IF e.kind \in drawing_types
                  THEN notes_loop(order, i + 1, texts, TRUE)
             ELSE notes_loop(order, i + 1, texts, has_drawings)

\* get_notes_for_frame: (texts, has_drawings) of one frame of one node
get_notes_for_frame(st, node, frame) ==
    notes_loop(st[node][frame], 1, <<>>, FALSE)

(***************************************************************************)
(* Report lines.                                                           *)
(***************************************************************************)
Line(k, n, t, s) == [k |-> k, n |-> n, t |-> t, s |-> s]
Lit(s) == Line("lit", 0, <<>>, s)
FrameLine(n) == Line("Frame", n, <<>>, "")
TextLine(t) == Line("text", 0, t, "")
TimeLine(now) == Line("time", now, <<>>, "")
\* "- *see annotated frame"
Placeholder ==
    <<"-", " ", "*", "s", "e", "e", " ", "a", "n", "n", "o", "t", "a", "t", "e", "d",
      " ", "f", "r", "a", "m", "e">>

\* the clip's media: an image sequence in the host's notation
SourceNode == "sourceGroup000000_source"
SourceFile == "/shots/shot.30-69@@@.exr"

\* os.path.basename, os.path.dirname on the paths of the model
basename(path) == IF path = SourceFile THEN "shot.30-69@@@.exr" ELSE path
dirname(path) == IF path = SourceFile THEN "/shots" ELSE ""

\* _normalize_sequence_path on the paths of the model
_normalize_sequence_path(path) ==
    CASE path = "/shots/shot.30-69@@@.exr" -> "/shots/shot.###.exr"
      [] path = "shot.30-69@@@.exr" -> "shot.###.exr"
      [] OTHER -> path

\* format_notes_for_export, the inner loop: the lines of one block's notes
RECURSIVE note_lines(_, _)
note_lines(notes, i) ==
    IF i > Len(notes) THEN <<>>
    ELSE LET normalized == normalize_note(notes[i])
         IN  IF normalized # None
             THEN <<TextLine(normalized)>> \o note_lines(notes, i + 1)
             ELSE note_lines(notes, i + 1)

\* format_notes_for_export, the outer loop: the blocks of the frames from i on
RECURSIVE body_lines(_, _, _)
body_lines(all_frames, i, frame_notes) ==
    IF i > Len(all_frames) THEN <<>>
    ELSE LET frame == all_frames[i]
             valid == IF frame \in DOMAIN frame_notes
                      THEN note_lines(frame_notes[frame], 1) ELSE <<>>
             block == <<FrameLine(frame)>> \o
                      (IF valid # <<>> THEN valid ELSE <<TextLine(Placeholder)>>)
             gap == IF i < Len(all_frames) THEN <<Lit("")>> ELSE <<>>
         IN  block \o gap \o body_lines(all_frames, i + 1, frame_notes)

\* format_notes_for_export; frames_folder and session_path are "" when not given
format_notes_for_export(source_name, source_path, frame_notes, drawing_only_frames, frames_folder, session_path, now) ==
    LET all_frames == sorted(DOMAIN frame_notes \cup drawing_only_frames)
        header == <<Line("Notes on", 0, <<>>, _normalize_sequence_path(source_name)),
                    TimeLine(now), Lit(""), Lit("---"), Lit("")>>
        footer == <<Lit(""), Lit("---"), Lit("")>>
        annotations == IF frames_folder # ""
                       THEN <<Lit("annotations:"), Lit(frames_folder), Lit("")>> ELSE <<>>
        session == IF session_path # ""
                   THEN <<Lit("session:"), Lit(session_path), Lit("")>> ELSE <<>>
        sep == IF frames_folder # "" \/ session_path # ""
               THEN <<Lit("---"), Lit("")>> ELSE <<>>
        file == <<Lit("source file:"),
                  Lit(IF source_path # "" THEN _normalize_sequence_path(source_path)
                      ELSE source_name)>>
        folder == IF source_path # ""
                  THEN <<Lit(""), Lit("source folder:"), Lit(dirname(source_path))>>
                  ELSE <<>>
    IN  header \o body_lines(all_frames, 1, frame_notes) \o footer
          \o annotations \o session \o sep \o file \o folder

(***************************************************************************)
(* The export pipeline.                                                    *)
(***************************************************************************)
\* frame_notes[key].extend(texts), the list created when absent
extend(frame_notes, key, texts) ==
    IF key \in DOMAIN frame_notes
    THEN [frame_notes EXCEPT ![key] = @ \o texts]
    ELSE frame_notes @@ (key :> texts)

\* the two gathering loops of _gather_notes_for_export: the frames of one node
\* from i on; a frame of the sequence node is keyed by sourceFrame(frame), or
\* by the frame itself when that call raises (frame \in mapFail)
RECURSIVE gather_loop(_, _, _, _, _, _)
gather_loop(st, node, frames, i, mapFail, acc) ==
    IF i > Len(frames) THEN acc
    ELSE LET frame == frames[i]
             src_frame == IF node = SequencePaint /\ frame \notin mapFail
                          THEN sourceFrame(frame) ELSE frame
             r == get_notes_for_frame(st, node, frame)
             next == IF r.texts # <<>>
                     THEN [acc EXCEPT !.frame_notes = extend(@, src_frame, r.texts)]
                     ELSE IF r.has_drawings
                     THEN [acc EXCEPT !.drawing_only_frames = @ \cup {src_frame}]
                     ELSE acc
         IN  gather_loop(st, node, frames, i + 1, mapFail, next)

RECURSIVE SumLen(_, _)
SumLen(f, S) ==
    IF S = {} THEN 0
    ELSE LET k == CHOOSE x \in S : TRUE IN Len(f[k]) + SumLen(f, S \ {k})

NoResult == [text |-> None, total_notes |-> 0, total_frames |-> 0, drawings |-> 0]

\* _gather_notes_for_export (and the same code inline in copy_notes_to_clipboard):
\* nodesFail is whether nodesOfType raises (no sequence node is found then),
\* mapFail are the global frames on which sourceFrame raises, infoFail whether
\* sourceMediaInfo raises, now the clock
_gather_notes_for_export(st, nodesFail, mapFail, infoFail, frames_folder, session_path, now) ==
    LET annotated_frames == get_annotated_frames(st, SourcePaint)
        native_frames == IF nodesFail THEN <<>> ELSE get_annotated_frames(st, SequencePaint)
        acc0 == [frame_notes |-> [k \in {} |-> <<>>], drawing_only_frames |-> {}]
        acc1 == gather_loop(st, SourcePaint, annotated_frames, 1, mapFail, acc0)
        acc2 == gather_loop(st, SequencePaint, native_frames, 1, mapFail, acc1)
        frame_notes == acc2.frame_notes
        drawing_only_frames == acc2.drawing_only_frames
        source_path == IF infoFail THEN "" ELSE SourceFile
        source_name == IF infoFail THEN SourceNode ELSE basename(SourceFile)
    IN  IF annotated_frames = <<>> /\ native_frames = <<>> THEN NoResult
        ELSE IF DOMAIN frame_notes = {} /\ drawing_only_frames = {} THEN NoResult
        ELSE [text |-> format_notes_for_export(source_name, source_path, frame_notes,
                           drawing_only_frames, frames_folder, session_path, now),
              total_notes |-> SumLen(frame_notes, DOMAIN frame_notes),
              total_frames |-> Cardinality(DOMAIN frame_notes)
                                 + Cardinality(drawing_only_frames),
              drawings |-> Cardinality(drawing_only_frames)]

(***************************************************************************)
(* wrap_text.                                                              *)
(***************************************************************************)
MAX_CHARS_PER_LINE == 58
FORCE_BREAK_LENGTH == (MAX_CHARS_PER_LINE * 65) \div 100

\* text.split("\n")
RECURSIVE split_newlines(_)
split_newlines(s) ==
    IF \E i \in 1..Len(s) : s[i] = NL
    THEN LET i == CHOOSE i \in 1..Len(s) : s[i] = NL /\ \A j \in 1..(i - 1) : s[j] # NL
         IN  <<SubSeq(s, 1, i - 1)>> \o split_newlines(SubSeq(s, i + 1, Len(s)))
    ELSE <<s>>

\* line.split(): the maximal runs of non-whitespace characters
RECURSIVE split_words(_)
split_words(s) ==
    LET t == LStrip(s)
    IN  IF t = <<>> THEN <<>>
        ELSE LET n == IF \E i \in 1..Len(t) : IsSpace(t[i])
                      THEN (CHOOSE i \in 1..Len(t) :
                              IsSpace(t[i]) /\ \A j \in 1..(i - 1) : ~IsSpace(t[j])) - 1
                      ELSE Len(t)
             IN  <<SubSeq(t, 1, n)>> \o split_words(SubSeq(t, n + 1, Len(t)))

\* join that puts nothing between the parts
RECURSIVE joinMutant(_, _)
joinMutant(parts, sep) ==
    IF parts = <<>> THEN <<>> ELSE parts[1] \o joinMutant(Tail(parts), sep)

\* sep.join(parts)
RECURSIVE join(_, _)
join(parts, sep) ==
    IF parts = <<>> THEN <<>>
    ELSE IF Len(parts) = 1 THEN parts[1]
    ELSE parts[1] \o sep \o join(Tail(parts), sep)

\* force_break that cuts nothing off
force_breakMutant(word, force_break_length) == [chunks |-> <<>>, rest |-> word]

\* while len(word) > force_break_length: the chunks cut off, and what is left
RECURSIVE force_break(_, _)
force_break(word, force_break_length) ==
    IF Len(word) > force_break_length
    THEN LET r == force_break(SubSeq(word, force_break_length + 1, Len(word)),
                              force_break_length)
         IN  [chunks |-> <<SubSeq(word, 1, force_break_length)>> \o r.chunks,
              rest |-> r.rest]
    ELSE [chunks |-> <<>>, rest |-> word]

\* the loop over the words of one long line
RECURSIVE wrap_words(_, _, _, _, _, _)
wrap_words(words, i, current_line, wrapped_lines, max_length, force_break_length) ==
    IF i > Len(words)
    THEN IF current_line # <<>> THEN Append(wrapped_lines, current_line) ELSE wrapped_lines
    ELSE LET word == words[i]
             flushed == IF current_line # <<>> THEN Append(wrapped_lines, current_line)
                        ELSE wrapped_lines
         IN  IF Len(word) > force_break_length
             THEN LET b == force_break(word, force_break_length)
                  IN  wrap_words(words, i + 1, b.rest, flushed \o b.chunks,
                                 max_length, force_break_length)
             ELSE IF Len(current_line) + Len(word) + 1 <= max_length
             THEN wrap_words(words, i + 1,
                             IF current_line # <<>> THEN current_line \o <<" ">> \o word
                             ELSE word,
                             wrapped_lines, max_length, force_break_length)
             ELSE wrap_words(words, i + 1, word, flushed, max_length, force_break_length)

\* the lines one input line is wrapped to
wrap_line(line, max_length, force_break_length) ==
    IF Len(line) <= max_length THEN <<line>>
    ELSE LET words0 == split_words(line)
             words == IF Len(words0) >= 2 /\ words0[1] = <<"-">>
                      THEN <<(<<"-", " ">> \o words0[2])>> \o SubSeq(words0, 3, Len(words0))
                      ELSE words0
         IN  IF Len(words) = 1
             THEN LET b == force_break(words[1], force_break_length)
                  IN  b.chunks \o (IF b.rest # <<>> THEN <<b.rest>> ELSE <<>>)
             ELSE wrap_words(words, 1, <<>>, <<>>, max_length, force_break_length)

RECURSIVE wrap_lines(_, _, _)
wrap_lines(input_lines, max_length, force_break_length) ==
    IF input_lines = <<>> THEN <<>>
    ELSE wrap_line(input_lines[1], max_length, force_break_length)
           \o wrap_lines(Tail(input_lines), max_length, force_break_length)

\* wrap_text(text, max_length)
wrap_text(text, max_length) ==
    join(wrap_lines(split_newlines(text), max_length, FORCE_BREAK_LENGTH), <<NL>>)

(***************************************************************************)
(* The host.                                                               *)
(***************************************************************************)
\* the view nodes: the timeline of all clips, and the clip's own group
DefaultSequence == "defaultSequence"
SourceGroup == "sourceGroup000000"

\* where the playhead can be put: on a frame of the clip, or past its end
OffClip == 2 * ClipStart + 1
Playheads == GlobalFrames \cup {OffClip}

\* commands.sourcesAtFrame(frame)
sourcesAtFrame(frame) == IF frame \in GlobalFrames THEN <<SourceNode>> ELSE <<>>

\* rvui.clearAllMarks(); rvui.markAnnotatedFrames(): the host marks every frame
\* of the view that has a paint element.  With the clip's group in view the
\* frames are clip-relative and only the source node is drawn; with the
\* sequence in view they are global and both nodes are drawn
markAnnotatedFrames(st, v) ==
    IF v = SourceGroup
    THEN {f \in ClipFrames : st[SourcePaint][f] # <<>>}
    ELSE {g \in GlobalFrames :
            st[SequencePaint][g] # <<>> \/ st[SourcePaint][sourceFrame(g)] # <<>>}

Msg(m) == [msg |-> m, notes |-> 0, frames |-> 0, drawings |-> 0]
Bit(b) == IF b THEN 1 ELSE 0

\* _draw_text_on_node that leaves nextId as it found it
_draw_text_on_nodeMutant(s, paint_node, label, frame, text, fail) ==
    IF fail \in {"early", "late"} THEN s
    ELSE [store |-> [s.store EXCEPT ![paint_node][frame] =
                        Append(@, Element("text", s.nextId[paint_node], frame, label, TRUE, text))],
          nextId |-> s.nextId]

(***************************************************************************)
(* Adding notes.                                                           *)
(***************************************************************************)
\* _draw_text_on_node on s = [store, nextId].  fail: "none"; "early", the read
\* of paint.nextId raises; "late", a property call raises after nextId was
\* written and before the name is appended to the FrameOrder
_draw_text_on_node(s, paint_node, label, frame, text, fail) ==
    LET unique_id == s.nextId[paint_node]
        bumped == [s.nextId EXCEPT ![paint_node] = unique_id + 1]
        e == Element("text", unique_id, frame, label, TRUE, text)
    IN  CASE fail = "early" -> s
          [] fail = "late" -> [s EXCEPT !.nextId = bumped]
          [] OTHER -> [store |-> [s.store EXCEPT ![paint_node][frame] = Append(@, e)],
                       nextId |-> bumped]

\* the shadow loop of _draw_note_with_outline_on_frame, from shadow i on
RECURSIVE draw_shadows(_, _, _, _, _, _)
draw_shadows(s, paint_node, frame, text, fails, i) ==
    IF i > 7 THEN s
    ELSE draw_shadows(
             _draw_text_on_node(s, paint_node, shadow_label(i), frame, text, fails[i]),
             paint_node, frame, text, fails, i + 1)

\* _draw_note_with_outline_on_frame: eight shadows, then the note; fails[i] is
\* how the i-th creation ends (0..7 the shadows, 8 the note)
_draw_note_with_outline_on_frame(s, paint_node, frame, text, fails) ==
    _draw_text_on_node(draw_shadows(s, paint_node, frame, text, fails, 0),
                       paint_node, "note", frame, text, fails[8])

AllOk == [i \in 0..8 |-> "none"]
FailPatterns == {AllOk, [AllOk EXCEPT ![8] = "late"]}
Failures(fails) == Cardinality({i \in 0..8 : fails[i] # "none"})

\* the texts a note is added with
UserTexts == {<<"a">>, <<"-">>}

\* _add_note_to_frame on s = [store, nextId, marked]: the new store, nextId and
\* marks, and the feedback displayed
_add_note_to_frame(s, note_text, frame, convFail, nodesFail, fails) ==
    LET same == [store |-> s.store, nextId |-> s.nextId, marked |-> s.marked,
                 feedback |-> <<>>]
        source_frame == sourceFrame(frame)
        wrapped_note == wrap_text(<<"-", " ">> \o note_text, MAX_CHARS_PER_LINE)
        s1 == _draw_note_with_outline_on_frame(
                  [store |-> s.store, nextId |-> s.nextId], SourcePaint, source_frame,
                  wrapped_note, fails)
    IN  IF sourcesAtFrame(frame) = <<>>
        THEN [same EXCEPT !.feedback = <<Msg("No source at frame")>>]
        ELSE IF convFail
        THEN [same EXCEPT !.feedback = <<Msg("Cannot add note - frame conversion failed")>>]
        ELSE IF nodesFail
        THEN [same EXCEPT !.feedback = <<Msg("No paint node found")>>]
        ELSE IF note_text = <<>> THEN same
        ELSE [store |-> s1.store, nextId |-> s1.nextId,
              marked |-> s.marked \cup {frame}, feedback |-> <<>>]

\* one run of the pipeline, as remembered: what it read, what the host
\* answered, and what it returned
Run(st, r, nodesFail, mapFail, infoFail, now) ==
    [stores |-> st, text |-> r.text, total_notes |-> r.total_notes,
     total_frames |-> r.total_frames, nodesFail |-> nodesFail, mapFail |-> mapFail,
     infoFail |-> infoFail, now |-> now]

\* the last two runs are kept
Remember(h, run) == IF h = <<>> THEN <<run>> ELSE <<h[Len(h)], run>>

\* add_note: the user puts the playhead on frame and adds a note there
add_note(note_text, frame, convFail, nodesFail, fails) ==
    /\ pc = "Idle"
    /\ writes < MaxWrites
    /\ sourcesAtFrame(frame) = <<>> => ~convFail /\ ~nodesFail /\ fails = AllOk
    /\ convFail => ~nodesFail /\ fails = AllOk
    /\ nodesFail => fails = AllOk
    /\ Bit(convFail) + Bit(nodesFail) + Failures(fails) <= MaxFaults
    /\ playhead' = frame
    /\ LET r == _add_note_to_frame([store |-> store, nextId |-> nextId, marked |-> marked],
                                   note_text, frame, convFail, nodesFail, fails)
       IN  /\ store' = r.store
           /\ nextId' = r.nextId
           /\ marked' = r.marked
           /\ feedback' = r.feedback
           /\ writes' = IF r.nextId # nextId THEN writes + 1 ELSE writes
           /\ hist' = IF r.store # store THEN <<>> ELSE hist
    /\ UNCHANGED <<view, clock, clipboard, disk, pc, locals, steps, input, output>>

(***************************************************************************)
(* The host's own drawing tool: one element appended to a FrameOrder.      *)
(***************************************************************************)
Pen == [kind |-> "pen", hasText |-> FALSE, text |-> <<>>]
NativeText(t) == [kind |-> "text", hasText |-> TRUE, text |-> t]
\* what the tool draws on a node
NativeContents(node) ==
    IF node = SourcePaint THEN {Pen, NativeText(<<" ">>)}
    ELSE {Pen, NativeText(<<"-", " ", "a">>), NativeText(<<"b">>)}
\* the frames of a node: clip-relative on the source node, global on the sequence node
NativeFrames(node) == IF node = SourcePaint THEN ClipFrames ELSE GlobalFrames

\* the tool's write on s = [store, nextId]
native_element(s, node, frame, c) ==
    [store |-> [s.store EXCEPT ![node][frame] =
                   Append(@, Element(c.kind, s.nextId[node], frame, "rv", c.hasText, c.text))],
     nextId |-> [s.nextId EXCEPT ![node] = @ + 1]]

native_draw(node, frame, c) ==
    /\ pc = "Idle"
    /\ writes < MaxWrites
    /\ LET s == native_element([store |-> store, nextId |-> nextId], node, frame, c)
       IN  store' = s.store /\ nextId' = s.nextId
    /\ writes' = writes + 1
    /\ hist' = <<>>
    /\ feedback' = <<>>
    /\ UNCHANGED <<marked, playhead, view, clock, clipboard, disk, pc, locals, steps,
                   input, output>>

(***************************************************************************)
(* Copy Notes.                                                             *)
(***************************************************************************)
\* the frames on which sourceFrame is called: those get_annotated_frames finds
\* on the sequence node, when that node was found
MappedFrames(st, nodesFail) ==
    LET native_frames == get_annotated_frames(st, SequencePaint)
    IN  IF nodesFail THEN {} ELSE {native_frames[i] : i \in 1..Len(native_frames)}

\* copy_notes_to_clipboard: the user puts the playhead on frame and copies the notes
copy_notes_to_clipboard(frame, markFail, nodesFail, mapFail, infoFail, clipFail) ==
    /\ pc = "Idle"
    /\ sourcesAtFrame(frame) = <<>> => ~nodesFail /\ mapFail = {} /\ ~infoFail /\ ~clipFail
    /\ Bit(markFail) + Bit(nodesFail) + Cardinality(mapFail) + Bit(infoFail) + Bit(clipFail)
          <= MaxFaults
    /\ playhead' = frame
    /\ marked' = IF markFail THEN marked ELSE markAnnotatedFrames(store, view)
    /\ IF sourcesAtFrame(frame) = <<>>
       THEN /\ feedback' = <<Msg("No source at current frame")>>
            /\ UNCHANGED <<clipboard, hist>>
       ELSE LET r == _gather_notes_for_export(store, nodesFail, mapFail, infoFail, "", "", clock)
            IN  /\ hist' = Remember(hist, Run(store, r, nodesFail, mapFail, infoFail, clock))
                /\ IF r.text = None
                   THEN /\ ~infoFail /\ ~clipFail
                        /\ feedback' = <<Msg("No annotations found")>>
                        /\ UNCHANGED clipboard
                   ELSE IF clipFail
                   THEN /\ feedback' = <<Msg("Failed to copy to clipboard")>>
                        /\ UNCHANGED clipboard
                   ELSE /\ clipboard' = r.text
                        /\ feedback' = <<[msg |-> "Notes copied!", notes |-> r.total_notes,
                                          frames |-> r.total_frames, drawings |-> r.drawings]>>
    /\ UNCHANGED <<store, nextId, view, clock, disk, pc, locals, steps, writes, input, output>>

\* a minute passes
tick ==
    /\ clock < MaxClock
    /\ clock' = clock + 1
    /\ UNCHANGED <<store, nextId, marked, playhead, view, clipboard, feedback, disk, pc,
                   locals, steps, writes, hist, input, output>>

(***************************************************************************)
(* Save Review.                                                            *)
(***************************************************************************)
\* review_folder, frames_folder and session_path of save_review, for SourceFile:
\* the folder next to the source file, named by time stamp and clip name
ReviewFolder == "/shots/<timestamp>_shot-review"
FramesFolder == "/shots/<timestamp>_shot-review/frames"
SessionPath == "/shots/<timestamp>_shot-review/shot-review_session.rv"

NoLocals ==
    [entry_view |-> DefaultSequence, has_annotations |-> FALSE, frames_folder |-> "",
     notes_text |-> None, exported_count |-> 0, faults |-> 0]
NoDisk ==
    [folder |-> FALSE, session |-> FALSE, frames |-> FALSE, report |-> None, images |-> {}]

\* how a call of _clean_empty_paint_elements ends: without a failure, or with
\* commands.frame(), the first setFrame, sendInternalEvent or the second
\* setFrame raising
CleanModes == {"none", "frame", "seek", "clear", "back"}

\* note_text and note_text.strip()
has_content(note_text) == note_text # <<>> /\ Strip(note_text) # <<>>

\* _clean_empty_paint_elements: whether it reaches its "Clear Drawings" block
reaches_clear(st, paint_node, frame) ==
    LET order_data == st[paint_node][frame]
        seen == {i \in 1..Len(order_data) : ~is_shadow(order_data[i])}
        has_valid_content ==
            \E i \in seen :
               IF order_data[i].hasText THEN has_content(order_data[i].text)
               ELSE order_data[i].kind \in drawing_types
        empty_text_elements ==
            {i \in seen : order_data[i].hasText /\ ~has_content(order_data[i].text)}
    IN  order_data # <<>> /\ ~(has_valid_content \/ empty_text_elements = {})

\* _clean_empty_paint_elements that clears every frame of the node
_clean_empty_paint_elementsMutant(h, paint_node, frame, mode) ==
    IF mode \in {"frame", "seek", "clear"} THEN h
    ELSE [h EXCEPT !.store = [h.store EXCEPT ![paint_node] = [f \in DOMAIN @ |-> <<>>]]]

\* _clean_empty_paint_elements on h = [store, playhead]; "Clear Drawings"
\* deletes the paint elements of the current frame of the node in view
_clean_empty_paint_elements(h, paint_node, frame, mode) ==
    LET cleared == [h.store EXCEPT ![paint_node][frame] = <<>>]
    IN  IF ~reaches_clear(h.store, paint_node, frame) THEN h
        ELSE CASE mode = "frame" -> h
               [] mode = "seek" -> h
               [] mode = "clear" -> [h EXCEPT !.playhead = frame]
               [] mode = "back" -> [store |-> cleared, playhead |-> frame]
               [] OTHER -> [h EXCEPT !.store = cleared]

\* valid_texts or has_drawings, for one marked frame of the source node
is_valid_frame(st, frame) ==
    LET r == get_notes_for_frame(st, SourcePaint, frame)
    IN  (\E i \in 1..Len(r.texts) : normalize_note(r.texts[i]) # None) \/ r.has_drawings

\* the frames on which a failure of the cleanup can show
Cleanable(st, frames) ==
    {f \in frames \cap ClipFrames :
        ~is_valid_frame(st, f) /\ reaches_clear(st, SourcePaint, f)}

\* for frame in marked_frames: keep the valid frames, clean up the others
RECURSIVE filter_marked_frames(_, _, _, _, _)
filter_marked_frames(h, frames, i, modes, valid_frames) ==
    IF i > Len(frames)
    THEN [store |-> h.store, playhead |-> h.playhead, valid_frames |-> valid_frames]
    ELSE LET frame == frames[i]
             mode == IF frame \in DOMAIN modes THEN modes[frame] ELSE "none"
         IN  IF is_valid_frame(h.store, frame)
             THEN filter_marked_frames(h, frames, i + 1, modes, Append(valid_frames, frame))
             ELSE filter_marked_frames(
                      _clean_empty_paint_elements(h, SourcePaint, frame, mode),
                      frames, i + 1, modes, valid_frames)

\* the ways the cleanups of the frames of a store can end
CleanChoices(st) ==
    {m \in [ClipFrames -> CleanModes] :
        \A f \in ClipFrames : m[f] # "none" => f \in Cleanable(st, ClipFrames)}
CleanFaults(modes) == Cardinality({f \in DOMAIN modes : modes[f] # "none"})
\* the frames whose cleanup fails
Failing(modes) == {f \in DOMAIN modes : modes[f] # "none"}

Range(s) == {s[i] : i \in 1..Len(s)}

\* GetSourceInfo that creates the export folder before it looks for the source
GetSourceInfoMutant(info) ==
    /\ pc = "Idle"
    /\ steps = <<>>
    /\ sourcesAtFrame(playhead) = <<>> => info = "file"
    /\ steps' = <<"GetSourceInfo">>
    /\ locals' = [NoLocals EXCEPT !.entry_view = view, !.faults = Bit(info = "raise")]
    /\ IF sourcesAtFrame(playhead) = <<>>
       THEN feedback' = <<Msg("No source at current frame")>> /\ pc' = "Idle"
       ELSE IF info = "no file"
       THEN feedback' = <<Msg("Cannot determine source file path")>> /\ pc' = "Idle"
       ELSE IF info = "raise"
       THEN feedback' = <<Msg("Error getting source info")>> /\ pc' = "Idle"
       ELSE feedback' = <<>> /\ pc' = "CheckAnnotations"
    /\ disk' = [disk EXCEPT !.folder = TRUE]
    /\ UNCHANGED <<store, nextId, marked, playhead, view, clock, clipboard, writes,
                   hist, input, output>>

\* save_review, Step 1: the source at the playhead and its file.  info is what
\* sourceMediaInfo answers: a file, no file, or an exception
GetSourceInfo(info) ==
    /\ pc = "Idle"
    /\ steps = <<>>
    /\ sourcesAtFrame(playhead) = <<>> => info = "file"
    /\ steps' = <<"GetSourceInfo">>
    /\ locals' = [NoLocals EXCEPT !.entry_view = view, !.faults = Bit(info = "raise")]
    /\ IF sourcesAtFrame(playhead) = <<>>
       THEN feedback' = <<Msg("No source at current frame")>> /\ pc' = "Idle"
       ELSE IF info = "no file"
       THEN feedback' = <<Msg("Cannot determine source file path")>> /\ pc' = "Idle"
       ELSE IF info = "raise"
       THEN feedback' = <<Msg("Error getting source info")>> /\ pc' = "Idle"
       ELSE feedback' = <<>> /\ pc' = "CheckAnnotations"
    /\ UNCHANGED <<store, nextId, marked, playhead, view, clock, clipboard, disk, writes,
                   hist, input, output>>

\* the host calls in the try block of Step 2, one of which may raise
CheckFails == {"none", "viewNode", "setViewNode", "markAnnotatedFrames", "markedFrames",
               "remark"}

\* save_review, Step 2: the try / except / finally around the check for
\* annotations.  fail is the call of the try block that raises, modes how the
\* cleanups end, restoreFail whether setViewNode(original_view) raises
CheckAnnotations(fail, modes, restoreFail) ==
    /\ pc = "CheckAnnotations"
    /\ LET entered == fail \notin {"viewNode", "setViewNode"}
           marked1 == IF fail \in {"viewNode", "setViewNode", "markAnnotatedFrames"}
                      THEN marked ELSE markAnnotatedFrames(store, SourceGroup)
           looped == fail \in {"none", "remark"}
           r == IF looped
                THEN filter_marked_frames([store |-> store, playhead |-> playhead],
                                          sorted(marked1), 1, modes, <<>>)
                ELSE [store |-> store, playhead |-> playhead, valid_frames |-> <<>>]
           found == r.valid_frames # <<>>
           has_annotations == found /\ fail # "remark"
           n == Bit(fail # "none") + CleanFaults(modes) + Bit(restoreFail)
       IN  /\ locals.faults + n <= MaxFaults
           /\ restoreFail => entered
           /\ Failing(modes) \subseteq (IF looped THEN marked1 ELSE {})
           /\ fail = "remark" => found
           /\ store' = r.store
           /\ playhead' = r.playhead
           /\ marked' = IF has_annotations THEN markAnnotatedFrames(r.store, SourceGroup)
                        ELSE marked1
           /\ view' = IF entered /\ restoreFail THEN SourceGroup ELSE view
           /\ locals' = [locals EXCEPT !.has_annotations = has_annotations,
                                       !.faults = @ + n]
           /\ hist' = IF r.store # store THEN <<>> ELSE hist
           /\ IF has_annotations
              THEN pc' = "CreateFolder" /\ feedback' = feedback
              ELSE pc' = "Idle" /\ feedback' = <<Msg("No annotations found")>>
    /\ steps' = Append(steps, "CheckAnnotations")
    /\ UNCHANGED <<nextId, clock, clipboard, disk, writes, input, output>>

\* save_review, Step 3: os.makedirs(review_folder)
CreateFolder(fail) ==
    /\ pc = "CreateFolder"
    /\ locals.faults + Bit(fail) <= MaxFaults
    /\ steps' = Append(steps, "CreateFolder")
    /\ locals' = [locals EXCEPT !.faults = @ + Bit(fail)]
    /\ IF fail
       THEN /\ feedback' = Append(feedback, Msg("Cannot create folder"))
            /\ pc' = "Idle"
            /\ UNCHANGED disk
       ELSE /\ disk' = [disk EXCEPT !.folder = TRUE]
            /\ pc' = "SaveSession"
            /\ UNCHANGED feedback
    /\ UNCHANGED <<store, nextId, marked, playhead, view, clock, clipboard, writes, hist,
                   input, output>>

\* SaveSession that tries again when the session save fails
SaveSessionMutant(fail) ==
    /\ pc = "SaveSession"
    /\ locals.faults + Bit(fail) <= MaxFaults
    /\ steps' = Append(steps, "SaveSession")
    /\ locals' = [locals EXCEPT !.faults = @ + Bit(fail)]
    /\ IF fail
       THEN feedback' = Append(feedback, Msg("Error saving session")) /\ UNCHANGED disk
       ELSE disk' = [disk EXCEPT !.session = TRUE] /\ UNCHANGED feedback
    /\ pc' = IF fail THEN "SaveSession" ELSE "CreateFramesFolder"
    /\ UNCHANGED <<store, nextId, marked, playhead, view, clock, clipboard, writes, hist,
                   input, output>>

\* save_review, Step 3: commands.saveSession; a failure is shown and the run goes on
SaveSession(fail) ==
    /\ pc = "SaveSession"
    /\ locals.faults + Bit(fail) <= MaxFaults
    /\ steps' = Append(steps, "SaveSession")
    /\ locals' = [locals EXCEPT !.faults = @ + Bit(fail)]
    /\ IF fail
       THEN feedback' = Append(feedback, Msg("Error saving session")) /\ UNCHANGED disk
       ELSE disk' = [disk EXCEPT !.session = TRUE] /\ UNCHANGED feedback
    /\ pc' = "CreateFramesFolder"
    /\ UNCHANGED <<store, nextId, marked, playhead, view, clock, clipboard, writes, hist,
                   input, output>>

\* save_review, Step 4: os.makedirs(frames_folder), the review folder when it fails
CreateFramesFolder(fail) ==
    /\ pc = "CreateFramesFolder"
    /\ locals.faults + Bit(fail) <= MaxFaults
    /\ steps' = Append(steps, "CreateFramesFolder")
    /\ locals' = [locals EXCEPT !.faults = @ + Bit(fail),
                                !.frames_folder = IF fail THEN ReviewFolder ELSE FramesFolder]
    /\ disk' = [disk EXCEPT !.frames = ~fail]
    /\ pc' = "RunExportPipeline"
    /\ UNCHANGED <<store, nextId, marked, playhead, view, clock, clipboard, feedback, writes,
                   hist, input, output>>

\* save_review, Step 5: _gather_notes_for_export
RunExportPipeline(markFail, nodesFail, mapFail, infoFail) ==
    /\ pc = "RunExportPipeline"
    /\ LET n == Bit(markFail) + Bit(nodesFail) + Cardinality(mapFail) + Bit(infoFail)
           r == _gather_notes_for_export(store, nodesFail, mapFail, infoFail,
                                         locals.frames_folder, SessionPath, clock)
       IN  /\ locals.faults + n <= MaxFaults
           /\ r.text = None => ~infoFail
           /\ marked' = IF markFail THEN marked ELSE markAnnotatedFrames(store, view)
           /\ locals' = [locals EXCEPT !.notes_text = r.text, !.faults = @ + n]
           /\ hist' = Remember(hist, Run(store, r, nodesFail, mapFail, infoFail, clock))
           /\ pc' = IF r.text # None THEN "WriteReportFile" ELSE "ExportFrameImages"
    /\ steps' = Append(steps, "RunExportPipeline")
    /\ UNCHANGED <<store, nextId, playhead, view, clock, clipboard, feedback, disk, writes,
                   input, output>>

\* save_review, Step 5: the report written to the notes file
WriteReportFile(fail) ==
    /\ pc = "WriteReportFile"
    /\ locals.faults + Bit(fail) <= MaxFaults
    /\ steps' = Append(steps, "WriteReportFile")
    /\ locals' = [locals EXCEPT !.faults = @ + Bit(fail)]
    /\ disk' = IF fail THEN disk ELSE [disk EXCEPT !.report = locals.notes_text]
    /\ pc' = "CopyToClipboard"
    /\ UNCHANGED <<store, nextId, marked, playhead, view, clock, clipboard, feedback, writes,
                   hist, input, output>>

\* save_review, Step 5: the report copied to the clipboard
CopyToClipboard(fail) ==
    /\ pc = "CopyToClipboard"
    /\ locals.faults + Bit(fail) <= MaxFaults
    /\ steps' = Append(steps, "CopyToClipboard")
    /\ locals' = [locals EXCEPT !.faults = @ + Bit(fail)]
    /\ clipboard' = IF fail THEN clipboard ELSE locals.notes_text
    /\ pc' = "ExportFrameImages"
    /\ UNCHANGED <<store, nextId, marked, playhead, view, clock, feedback, disk, writes,
                   hist, input, output>>

\* the host calls of _export_annotated_frames that may raise
ExportCalls == {"viewNode", "setViewNode", "markAnnotatedFrames", "markedFrames",
                "updateMarks", "frameImage", "resetColor", "exportMarkedFrames", "restore"}
\* the calls that raise in one run
ExportFaults == {fails \in SUBSET ExportCalls : Cardinality(fails) <= MaxFaults}

\* _export_annotated_frames on h = [store, playhead, marked, view]: fails are
\* the host calls that raise, modes how the cleanups end.  calls are the host
\* calls made
_export_annotated_frames(h, fails, modes) ==
    LET marked1 == IF "markAnnotatedFrames" \in fails THEN h.marked
                   ELSE markAnnotatedFrames(h.store, SourceGroup)
        marked_frames == IF "markedFrames" \in fails THEN {} ELSE marked1
        r == IF marked_frames # {}
             THEN filter_marked_frames([store |-> h.store, playhead |-> h.playhead],
                                       sorted(marked_frames), 1, modes, <<>>)
             ELSE [store |-> h.store, playhead |-> h.playhead, valid_frames |-> <<>>]
        marked2 == IF marked_frames # {} /\ "updateMarks" \notin fails
                   THEN Range(r.valid_frames) ELSE marked1
        exporting == r.valid_frames # <<>>
        exported == exporting /\ "exportMarkedFrames" \notin fails
        restoring == IF "viewNode" \in fails THEN {} ELSE {"restore"}
    IN  IF "setViewNode" \in fails
        THEN [store |-> h.store, playhead |-> h.playhead, marked |-> h.marked,
              view |-> h.view, exported_count |-> 0, images |-> {}, cleaned |-> {},
              calls |-> {"viewNode", "setViewNode"} \cup restoring]
        ELSE [store |-> r.store, playhead |-> r.playhead, marked |-> marked2,
              view |-> IF "viewNode" \in fails \/ "restore" \in fails
                       THEN SourceGroup ELSE h.view,
              exported_count |-> IF exported THEN Len(r.valid_frames) ELSE 0,
              images |-> IF exported THEN marked2 ELSE {},
              cleaned |-> marked_frames,
              calls |-> {"viewNode", "setViewNode", "markAnnotatedFrames", "markedFrames"}
                           \cup restoring
                           \cup (IF marked_frames # {} THEN {"updateMarks"} ELSE {})
                           \cup (IF exporting
                                 THEN {"frameImage", "resetColor", "exportMarkedFrames"}
                                 ELSE {})]

\* save_review, Step 6: _export_annotated_frames
ExportFrameImages(fails, modes) ==
    /\ pc = "ExportFrameImages"
    /\ locals.faults + Cardinality(fails) + CleanFaults(modes) <= MaxFaults
    /\ LET r == _export_annotated_frames(
                    [store |-> store, playhead |-> playhead, marked |-> marked, view |-> view],
                    fails, modes)
       IN  /\ fails \subseteq r.calls
           /\ Failing(modes) \subseteq r.cleaned
           /\ store' = r.store
           /\ playhead' = r.playhead
           /\ marked' = r.marked
           /\ view' = r.view
           /\ disk' = [disk EXCEPT !.images = r.images]
           /\ locals' = [locals EXCEPT !.exported_count = r.exported_count,
                                       !.faults = @ + Cardinality(fails) + CleanFaults(modes)]
    /\ steps' = Append(steps, "ExportFrameImages")
    /\ pc' = "Done"
    /\ UNCHANGED <<nextId, clock, clipboard, feedback, writes, hist, input, output>>

\* save_review, "Done - show feedback"
Done ==
    /\ pc = "Done"
    /\ steps' = Append(steps, "Done")
    /\ feedback' =
          Append(feedback,
                 IF locals.exported_count > 0 \/ locals.notes_text # None
                 THEN [msg |-> "Review saved", notes |-> 0,
                       frames |-> locals.exported_count, drawings |-> 0]
                 ELSE Msg("No annotations found to export"))
    /\ pc' = "Idle"
    /\ UNCHANGED <<store, nextId, marked, playhead, view, clock, clipboard, disk, locals,
                   writes, hist, input, output>>

(***************************************************************************)
(* normalize_note on its own.                                              *)
(***************************************************************************)
\* the characters of the texts: the bullet, the three kinds of whitespace, a letter
Alphabet == {"-", " ", NL, TAB, "a"}
Texts == UNION {[1..n -> Alphabet] : n \in 0..MaxLen}
Unset == [called |-> FALSE, result |-> None]

\* the line format_notes_for_export prints for the text: normalize_note(note)
print_note ==
    /\ ~output.called
    /\ output' = [called |-> TRUE, result |-> normalize_note(input)]
    /\ UNCHANGED <<store, nextId, marked, playhead, view, clock, clipboard, feedback, disk,
                   pc, locals, steps, writes, hist, input>>

(***************************************************************************)
(* Specifications.                                                         *)
(***************************************************************************)
NewSession == [store |-> EmptyStore, nextId |-> [n \in Nodes |-> 0]]

\* the sessions one more write leads to
Written(s) ==
    {LET r == _add_note_to_frame([store |-> s.store, nextId |-> s.nextId, marked |-> {}],
                                 t, g, FALSE, FALSE, AllOk)
     IN  [store |-> r.store, nextId |-> r.nextId] : t \in UserTexts, g \in GlobalFrames}
    \cup UNION {{native_element(s, n, f, c) : f \in NativeFrames(n), c \in NativeContents(n)} :
                  n \in Nodes}

\* the sessions saved after at most one write, and after at most two
WrittenOnce == {NewSession} \cup Written(NewSession)
Sessions == WrittenOnce \cup UNION {Written(s) : s \in WrittenOnce}

\* the host when the plugin is loaded
InitHost ==
    /\ marked = {}
    /\ view = DefaultSequence
    /\ clock = 0
    /\ clipboard = None
    /\ feedback = <<>>
    /\ disk = NoDisk
    /\ pc = "Idle"
    /\ locals = NoLocals
    /\ steps = <<>>
    /\ writes = 0
    /\ hist = <<>>
    /\ output = Unset

\* a new session: notes are added, the tool draws, the notes are copied
Init ==
    /\ store = NewSession.store
    /\ nextId = NewSession.nextId
    /\ playhead = ClipStart + 1
    /\ input = <<>>
    /\ InitHost

Next ==
    \/ \E note_text \in UserTexts, frame \in Playheads, convFail \in BOOLEAN, nodesFail \in BOOLEAN,
          fails \in FailPatterns :
          hist = <<>> /\ add_note(note_text, frame, convFail, nodesFail, fails)
    \/ \E node \in Nodes : \E frame \in NativeFrames(node), c \in NativeContents(node) :
          hist = <<>> /\ native_draw(node, frame, c)
    \/ \E frame \in Playheads, markFail \in BOOLEAN, nodesFail \in BOOLEAN, infoFail \in BOOLEAN, clipFail \in BOOLEAN :
          \E mapFail \in SUBSET MappedFrames(store, nodesFail) :
             hist = <<>> /\ copy_notes_to_clipboard(frame, markFail, nodesFail, mapFail, infoFail, clipFail)

Spec == Init /\ [][Next]_vars

\* a saved session: the notes are copied twice, at the same minute or not
InitTwice ==
    /\ \E s \in WrittenOnce : store = s.store /\ nextId = s.nextId
    /\ playhead = ClipStart + 1
    /\ input = <<>>
    /\ InitHost

NextTwice ==
    \/ \E markFail \in BOOLEAN, nodesFail \in BOOLEAN, infoFail \in BOOLEAN, clipFail \in BOOLEAN :
          \E mapFail \in SUBSET MappedFrames(store, nodesFail) :
             Len(hist) < 2 /\ copy_notes_to_clipboard(playhead, markFail, nodesFail, mapFail, infoFail, clipFail)
    \/ Len(hist) = 1 /\ tick

SpecTwice == InitTwice /\ [][NextTwice]_vars

\* a saved session: the review is saved, with the playhead on the clip or past it
InitReview ==
    /\ \E s \in Sessions : store = s.store /\ nextId = s.nextId
    /\ playhead \in {ClipStart + 1, OffClip}
    /\ input = <<>>
    /\ InitHost

NextReview ==
    \/ \E info \in {"file", "no file", "raise"} : GetSourceInfo(info)
    \/ \E modes \in CleanChoices(store) : \E fail \in CheckFails, restoreFail \in BOOLEAN :
          CheckAnnotations(fail, modes, restoreFail)
    \/ \E fail \in BOOLEAN : CreateFolder(fail)
    \/ \E fail \in BOOLEAN : SaveSession(fail)
    \/ \E fail \in BOOLEAN : CreateFramesFolder(fail)
    \/ \E markFail \in BOOLEAN, nodesFail \in BOOLEAN, infoFail \in BOOLEAN :
          \E mapFail \in SUBSET MappedFrames(store, nodesFail) :
             RunExportPipeline(markFail, nodesFail, mapFail, infoFail)
    \/ \E fail \in BOOLEAN : WriteReportFile(fail)
    \/ \E fail \in BOOLEAN : CopyToClipboard(fail)
    \/ \E modes \in CleanChoices(store) : \E fails \in ExportFaults :
          ExportFrameImages(fails, modes)
    \/ Done

SpecReview == InitReview /\ [][NextReview]_vars

\* every text of the alphabet, up to MaxLen characters, is printed
InitNorm ==
    /\ store = NewSession.store
    /\ nextId = NewSession.nextId
    /\ playhead = ClipStart + 1
    /\ input \in Texts
    /\ InitHost

NextNorm == print_note

SpecNorm == InitNorm /\ [][NextNorm]_vars

(***************************************************************************)
(* Reading a report and the stores it was made from.                       *)
(***************************************************************************)
IsFrameLine(l) == l.k = "Frame"
\* the numbers of the "Frame n" lines of a report, in the report's order
FrameNumbers(text) ==
    LET frame_lines == SelectSeq(text, IsFrameLine)
    IN  [i \in 1..Len(frame_lines) |-> frame_lines[i].n]
\* the positions of all "Frame n" lines, and of those with the number n
Blocks(text) == {p \in 1..Len(text) : text[p].k = "Frame"}
BlocksOf(text, n) == {p \in Blocks(text) : text[p].n = n}
\* the note lines printed under the "Frame n" line at position p
BlockLines(text, p) ==
    LET stop == CHOOSE q \in (p + 1)..(Len(text) + 1) :
                   /\ q = Len(text) + 1 \/ text[q].k # "text"
                   /\ \A j \in (p + 1)..(q - 1) : text[j].k = "text"
    IN  [i \in 1..(stop - p - 1) |-> text[p + i].t]

NotShadow(e) == ~is_shadow(e)
\* the elements that are no shadows, in the order of their FrameOrder
Shown(order) == SelectSeq(order, NotShadow)
\* the elements that belong to the clip-relative frame f: those of the source
\* store on f, then those of the sequence store on the global frame of f
ElementsOf(st, f) == Shown(st[SourcePaint][f]) \o Shown(st[SequencePaint][ClipStart + f])
TextsOf(es) == {es[j].text : j \in {k \in 1..Len(es) : es[k].hasText}}
HasDrawing(es) == \E j \in 1..Len(es) : ~es[j].hasText /\ es[j].kind \in drawing_types
Copies(es, t) == Cardinality({j \in 1..Len(es) : es[j].hasText /\ es[j].text = t})
Occurrences(lines, l) == Cardinality({j \in 1..Len(lines) : lines[j] = l})

\* the runs that returned a report
Reported == {i \in 1..Len(hist) : hist[i].text # None}
\* the runs in which every host call answered
Answered(run) == ~run.nodesFail /\ run.mapFail = {} /\ ~run.infoFail

\* C1: two text elements of one clip-relative frame with the same raw text, in
\* one store or one in each, give exactly one note line under that frame's
\* "Frame n" line (the text being one that is printed, and the only one of the
\* frame printed as that line)
C1OneLineForSameText ==
    \A i \in Reported :
       Answered(hist[i]) =>
          \A f \in ClipFrames :
             LET es == ElementsOf(hist[i].stores, f)
             IN  \A t \in TextsOf(es) :
                    (/\ Copies(es, t) >= 2
                     /\ normalize_note(t) # None
                     /\ \A u \in TextsOf(es) \ {t} : normalize_note(u) # normalize_note(t))
                    => \E p \in BlocksOf(hist[i].text, f) :
                          Occurrences(BlockLines(hist[i].text, p), normalize_note(t)) = 1

\* C2: a frame without a drawing element whose texts all normalize to nothing
\* has no "Frame n" line in the report
C2NoBlockForBlankFrame ==
    \A i \in Reported :
       \A f \in ClipFrames :
          LET es == ElementsOf(hist[i].stores, f)
          IN  (~HasDrawing(es) /\ \A t \in TextsOf(es) : normalize_note(t) = None)
              => BlocksOf(hist[i].text, f) = {}

\* C3: an annotation read from the sequence store at the global frame g is
\* reported under sourceFrame(g), and no "Frame n" line carries g, also when
\* the call of sourceFrame fails
C3ReportedUnderClipFrame ==
    \A i \in Reported :
       ~hist[i].nodesFail =>
          \A g \in GlobalFrames :
             LET r == get_notes_for_frame(hist[i].stores, SequencePaint, g)
             IN  (r.texts # <<>> \/ r.has_drawings)
                 => /\ BlocksOf(hist[i].text, sourceFrame(g)) # {}
                    /\ BlocksOf(hist[i].text, g) = {}

\* C4: a clip-relative frame with a drawing element, in either store, and no
\* text that survives normalization appears in the report exactly once, as
\* "Frame n" followed by the placeholder line alone
C4PlaceholderForDrawing ==
    \A i \in Reported :
       \A f \in ClipFrames :
          LET es == ElementsOf(hist[i].stores, f)
          IN  (HasDrawing(es) /\ \A t \in TextsOf(es) : normalize_note(t) = None)
              => /\ Cardinality(BlocksOf(hist[i].text, f)) = 1
                 /\ \A p \in BlocksOf(hist[i].text, f) :
                       BlockLines(hist[i].text, p) = <<Placeholder>>

RECURSIVE IsSubseq(_, _)
IsSubseq(a, b) ==
    IF a = <<>> THEN TRUE
    ELSE IF b = <<>> THEN FALSE
    ELSE IF a[1] = b[1] THEN IsSubseq(Tail(a), Tail(b))
    ELSE IsSubseq(a, Tail(b))

\* the lines of the texts of a list of elements, in the list's order
RECURSIVE LinesOf(_)
LinesOf(es) ==
    IF es = <<>> THEN <<>>
    ELSE (IF es[1].hasText /\ normalize_note(es[1].text) # None
          THEN <<normalize_note(es[1].text)>> ELSE <<>>) \o LinesOf(Tail(es))

\* the sequence-store elements a run reported under the number n
RECURSIVE SequenceSide(_, _, _)
SequenceSide(run, n, g) ==
    IF g \notin GlobalFrames THEN <<>>
    ELSE (IF ~run.nodesFail /\ n = (IF g \in run.mapFail THEN g ELSE sourceFrame(g))
          THEN Shown(run.stores[SequencePaint][g]) ELSE <<>>)
         \o SequenceSide(run, n, g + 1)

\* the elements a run met for the block numbered n, in the order it met them:
\* the source store's FrameOrder of n, then the sequence store's
Encountered(run, n) ==
    Shown(run.stores[SourcePaint][n]) \o SequenceSide(run, n, ClipStart + 1)

\* C5: the "Frame n" lines of a report are strictly ascending, and the note
\* lines of a block are in the order in which their elements were met, those
\* of the source store before those of the sequence store
C5AscendingAndEncounterOrder ==
    \A i \in Reported :
       LET text == hist[i].text
           numbers == FrameNumbers(text)
       IN  /\ \A j \in 1..(Len(numbers) - 1) : numbers[j] < numbers[j + 1]
           /\ \A p \in Blocks(text) :
                 \/ BlockLines(text, p) = <<Placeholder>>
                 \/ IsSubseq(BlockLines(text, p), LinesOf(Encountered(hist[i], text[p].n)))

\* a report with two different note lines in one block, the first from the
\* source store and the second from the sequence store
C5Witness ==
    \E i \in Reported :
       \E p \in Blocks(hist[i].text) :
          LET lines == BlockLines(hist[i].text, p)
              n == hist[i].text[p].n
          IN  /\ Len(lines) = 2
              /\ lines[1] # lines[2]
              /\ lines[1] \in Range(LinesOf(Shown(hist[i].stores[SourcePaint][n])))
              /\ lines[2] \in Range(LinesOf(SequenceSide(hist[i], n, ClipStart + 1)))

\* what the host answered to a run of the pipeline
Answers(run) == <<run.nodesFail, run.mapFail, run.infoFail>>

RECURSIVE Squeeze(_, _)
Squeeze(s, W) ==
    IF s = <<>> THEN <<>>
    ELSE IF s[1] \in W
         THEN (IF Len(s) > 1 /\ s[2] \in W THEN <<>> ELSE <<" ">>) \o Squeeze(Tail(s), W)
         ELSE <<s[1]>> \o Squeeze(Tail(s), W)
\* the characters of W removed from both ends
Trim(s, W) ==
    LET kept == {i \in 1..Len(s) : s[i] \notin W}
        first == CHOOSE i \in kept : \A j \in kept : i <= j
        last == CHOOSE i \in kept : \A j \in kept : j <= i
    IN  IF kept = {} THEN <<>> ELSE SubSeq(s, first, last)
\* one leading "- " removed
WithoutBullet(t) == IF StartsWith(t, <<"-", " ">>) THEN SubSeq(t, 3, Len(t)) ELSE t
Whitespace == {" ", NL, TAB}

\* C7, as stated: the line printed for t is "- " and t without one leading
\* "- ", every whitespace run (spaces, newlines, tabs) collapsed to one space,
\* trimmed; no line when that is empty
C7LineAsStated ==
    output.called =>
       LET content == Trim(Squeeze(WithoutBullet(input), Whitespace), Whitespace)
       IN  output.result = (IF content = <<>> THEN None ELSE <<"-", " ">> \o content)

\* C7, amended: let u be t without one leading "- ", every run of spaces and
\* newlines collapsed to one space (tabs stay) and whitespace trimmed from both
\* ends.  No line is printed when u is empty or is a "-" followed by
\* whitespace only; the line is u when u starts with "- ", "- " and the
\* trimmed rest of u when u starts with a "-" in front of something else, and
\* "- " and u otherwise
C7LineAsCoded ==
    output.called =>
       LET u == Trim(Squeeze(WithoutBullet(input), {" ", NL}), Whitespace)
           rest == Trim(Tail(u), Whitespace)
       IN  output.result =
              (IF u = <<>> THEN None
               ELSE IF u[1] # "-" THEN <<"-", " ">> \o u
               ELSE IF rest = <<>> THEN None
               ELSE IF Len(u) > 1 /\ u[2] = " " THEN u
               ELSE <<"-", " ">> \o rest)

\* a printed line that keeps a tab of its text
C7Witness ==
    /\ output.called
    /\ \E i \in 1..Len(output.result) : output.result[i] = TAB

\* a run of save_review has returned
Returned == pc = "Idle" /\ steps # <<>>

\* C8: when save_review returns, the active view node is the one that was
\* active when it was called
C8ViewRestored ==
    Returned => view = locals.entry_view

\* the steps of save_review, in the order of its code
StepOrder ==
    <<"GetSourceInfo", "CheckAnnotations", "CreateFolder", "SaveSession",
      "CreateFramesFolder", "RunExportPipeline", "WriteReportFile", "CopyToClipboard",
      "ExportFrameImages", "Done">>

Outcome == feedback[Len(feedback)].msg

\* C10: a run that created its folder and reached its end reports failure
\* exactly when no report file was written and no image was exported, and
\* never reports "Review saved" then
C10FailureIffNothingSaved ==
    (Returned /\ steps[Len(steps)] = "Done")
    => LET nothing == disk.report = None /\ disk.images = {}
       IN  /\ Outcome = "No annotations found to export" <=> nothing
           /\ ~(nothing /\ Outcome = "Review saved")

(***************************************************************************)
(* save_review: failures and preconditions.                                *)
(***************************************************************************)
\* the step has been executed in the latest run of save_review
Executed(step) == \E i \in 1..Len(steps) : steps[i] = step
\* the messages the latest handler displayed
Shown_messages == {feedback[i].msg : i \in 1..Len(feedback)}
\* the export folder could not be created; the report could not be written
FolderFailed == Executed("CreateFolder") /\ ~disk.folder
ReportFailed == Executed("WriteReportFile") /\ disk.report = None

\* C11: after the export folder could not be created, or the report file
\* could not be written, the failure has been shown and no later step of the
\* workflow is executed (after a failed report write: no clipboard copy, no
\* image export)
C11HardFailureStopsRun ==
    /\ FolderFailed => /\ "Cannot create folder" \in Shown_messages
                       /\ steps[Len(steps)] = "CreateFolder"
                       /\ pc = "Idle"
    /\ ReportFailed => /\ ~Executed("CopyToClipboard")
                       /\ ~Executed("ExportFrameImages")

\* the report has the footer line s
HasFooterLine(text, s) == \E i \in 1..Len(text) : text[i] = Lit(s)
\* a run of save_review has gone through its last step
Completed == Returned /\ steps[Len(steps)] = "Done"

\* C12: the report save_review wrote has the "session:" block only if the
\* session was saved, and, the run being over, the "annotations:" block only
\* if frame images were exported
C12FooterOnlyForArtifacts ==
    disk.report # None =>
       /\ HasFooterLine(disk.report, "session:") => disk.session
       /\ (Completed /\ HasFooterLine(disk.report, "annotations:")) => disk.images # {}

\* save_review ended on an unmet precondition: no clip at the playhead, no
\* source file path, or no annotations
Aborted ==
    /\ Returned
    /\ steps[Len(steps)] \in {"GetSourceInfo", "CheckAnnotations"}
PreconditionMessages ==
    {"No source at current frame", "Cannot determine source file path",
     "Error getting source info", "No annotations found"}

\* C13: when save_review aborts on an unmet precondition it has shown a
\* message and has created no folder, session file, report file, image or
\* clipboard content
C13AbortCreatesNothing ==
    Aborted => /\ feedback # <<>>
               /\ Outcome \in PreconditionMessages
               /\ disk = NoDisk
               /\ clipboard = None

\* a run that no host call failed and that found no annotations although a
\* store of the clip holds elements
C13Witness ==
    /\ Aborted
    /\ Outcome = "No annotations found"
    /\ locals.faults = 0
    /\ store # EmptyStore

(***************************************************************************)
(* The stores under every action of the plugin.                            *)
(***************************************************************************)
\* a session in which notes are added and the tool draws, and then the notes
\* are copied or the review is saved
NextAll ==
    \/ steps = <<>> /\ Next
    \/ (hist = <<>> \/ steps # <<>>) /\ NextReview

SpecAll == Init /\ [][NextAll]_vars

IsPrefix(a, b) == Len(a) <= Len(b) /\ SubSeq(b, 1, Len(a)) = a
\* the step deleted the frame of the source store in the cleanup pass of
\* save_review, the frame holding neither a valid text nor a drawing
CleanedUp(node, frame) ==
    /\ pc \in {"CheckAnnotations", "ExportFrameImages"}
    /\ node = SourcePaint
    /\ ~is_valid_frame(store, frame)
    /\ store'[node][frame] = <<>>
\* the step ran the export pipeline, from copy_notes_to_clipboard or save_review
PipelineRan == hist' # hist /\ hist' # <<>>
\* the number of elements registered on a node
ElementCount(node) ==
    Cardinality({<<f, i>> \in AllFrames \X (1..(9 * MaxWrites)) : i <= Len(store[node][f])})

\* C14: every step keeps each FrameOrder of both stores as a beginning of the
\* new one, elements unchanged and in place, unless the cleanup pass deleted
\* the frame; a step that runs the export pipeline leaves the stores as they are
C14StoresOnlyGrow ==
    [][/\ \A node \in Nodes, frame \in AllFrames :
             IsPrefix(store[node][frame], store'[node][frame]) \/ CleanedUp(node, frame)
       /\ PipelineRan => store' = store]_vars

\* a review was saved of a clip with a note, after the cleanup pass deleted
\* the tool's blank text of another frame: ten ids issued, the nine elements
\* of the note left
C14Witness ==
    /\ Completed
    /\ hist # <<>>
    /\ nextId[SourcePaint] = 10
    /\ ElementCount(SourcePaint) = 9
    /\ \E f \in ClipFrames : \E i \in 1..Len(store[SourcePaint][f]) :
          store[SourcePaint][f][i].label = "note"

(***************************************************************************)
(* Notes, shadows and ids in a store.                                      *)
(***************************************************************************)
\* the number of elements of the frame with the label and the text
Labelled(st, node, frame, label, text) ==
    Cardinality({i \in 1..Len(st[node][frame]) :
                    /\ st[node][frame][i].label = label
                    /\ st[node][frame][i].hasText
                    /\ st[node][frame][i].text = text})
\* the texts of the elements of a frame
FrameTexts(st, node, frame) ==
    {st[node][frame][i].text : i \in 1..Len(st[node][frame])}

\* C15: on every frame of the source store each note has its eight shadows
\* shadow0..shadow7 with the same text, and there is no shadow without its
\* note: for every text, as many elements of each shadow label as notes
C15NoteHasEightShadows ==
    \A frame \in AllFrames :
       \A text \in FrameTexts(store, SourcePaint, frame) :
          \A i \in 0..7 :
             Labelled(store, SourcePaint, frame, shadow_label(i), text)
                = Labelled(store, SourcePaint, frame, "note", text)

(***************************************************************************)
(* Element creation on its own.                                            *)
(***************************************************************************)
\* the ids issued on the source paint node in a session of creations
MaxIds == 4

\* one call of _draw_text_on_node on the source paint node, ending as fail says:
\* "none", "early" (before nextId is set) or "late" (after it)
draw_text(label, frame, fail) ==
    /\ pc = "Idle"
    /\ nextId[SourcePaint] < MaxIds
    /\ LET r == _draw_text_on_node([store |-> store, nextId |-> nextId], SourcePaint,
                                   label, frame, <<"-", " ", "a">>, fail)
       IN  store' = r.store /\ nextId' = r.nextId
    /\ UNCHANGED <<marked, playhead, view, clock, clipboard, feedback, disk, pc, locals,
                   steps, writes, hist, input, output>>

NextDraw ==
    \E label \in {"shadow0", "note"}, frame \in ClipFrames, fail \in {"none", "early", "late"} :
       draw_text(label, frame, fail)

SpecDraw == Init /\ [][NextDraw]_vars

\* the ids of the elements registered on a node
RegisteredIds(st, node) ==
    {st[node][f][i].id : <<f, i>> \in {p \in AllFrames \X (1..MaxIds) : p[2] <= Len(st[node][p[1]])}}

\* C16: an element a step registers in a FrameOrder has an id greater than
\* the id of every element registered on the node before, and the ids of a
\* FrameOrder increase along it
C16IdsStrictlyIncrease ==
    [][\A node \in Nodes, frame \in AllFrames :
          \A i \in 1..Len(store'[node][frame]) :
             /\ i > Len(store[node][frame])
                => \A id \in RegisteredIds(store, node) : store'[node][frame][i].id > id
             /\ \A j \in 1..(i - 1) :
                   store'[node][frame][j].id < store'[node][frame][i].id]_vars

\* two elements registered on different frames after a creation had failed
\* with its id already taken
C16Witness ==
    /\ nextId[SourcePaint] = 3
    /\ \A frame \in ClipFrames : Len(store[SourcePaint][frame]) = 1

(***************************************************************************)
(* The export pipeline when a read of the store raises.                    *)
(***************************************************************************)
\* the frames of a node that have a FrameOrder property
OrderFrames(st, node) == {f \in AllFrames : st[node][f] # <<>>}

\* one failing read: in get_annotated_frames ("enumerate") getStringProperty
\* raises on the FrameOrder of frame, the frames of before having been scanned
\* (the host decides the order of commands.properties); in get_notes_for_frame
\* ("notes") a property read raises after at elements of the frame were read
ReadFailures(st) ==
    UNION {UNION {
        {[stage |-> "enumerate", node |-> n, frame |-> f, before |-> b, at |-> 0] :
            b \in SUBSET (OrderFrames(st, n) \ {f})}
        \cup {[stage |-> "notes", node |-> n, frame |-> f, before |-> {}, at |-> k] :
                k \in 0..(Len(st[n][f]) - 1)} :
        f \in OrderFrames(st, n)} : n \in Nodes}

\* get_annotated_frames under the failing read: the except clause around the
\* whole scan ends it, and the frames found so far are returned
get_annotated_frames_reading(st, node, fail) ==
    IF fail.stage = "enumerate" /\ fail.node = node
    THEN sorted({f \in fail.before : \E i \in 1..Len(st[node][f]) : ~is_shadow(st[node][f][i])})
    ELSE get_annotated_frames(st, node)

\* what get_notes_for_frame gets to read under the failing read: the except
\* clause around its loop ends it, and what was collected so far is returned
read_before_failure(st, fail) ==
    IF fail.stage = "notes"
    THEN [st EXCEPT ![fail.node][fail.frame] = SubSeq(@, 1, fail.at)]
    ELSE st

\* _gather_notes_for_export under the failing read, every other host call answering
_gather_notes_for_export_reading(st, fail, now) ==
    LET annotated_frames == get_annotated_frames_reading(st, SourcePaint, fail)
        native_frames == get_annotated_frames_reading(st, SequencePaint, fail)
        read == read_before_failure(st, fail)
        acc0 == [frame_notes |-> [k \in {} |-> <<>>], drawing_only_frames |-> {}]
        acc1 == gather_loop(read, SourcePaint, annotated_frames, 1, {}, acc0)
        acc2 == gather_loop(read, SequencePaint, native_frames, 1, {}, acc1)
        frame_notes == acc2.frame_notes
        drawing_only_frames == acc2.drawing_only_frames
    IN  IF annotated_frames = <<>> /\ native_frames = <<>> THEN NoResult
        ELSE IF DOMAIN frame_notes = {} /\ drawing_only_frames = {} THEN NoResult
        ELSE [text |-> format_notes_for_export(basename(SourceFile), SourceFile, frame_notes,
                           drawing_only_frames, "", "", now),
              total_notes |-> SumLen(frame_notes, DOMAIN frame_notes),
              total_frames |-> Cardinality(DOMAIN frame_notes)
                                 + Cardinality(drawing_only_frames),
              drawings |-> Cardinality(drawing_only_frames)]

\* the pipeline runs once, one read of the store failing; input keeps the failure
gather_with_failing_read(fail) ==
    /\ pc = "Idle"
    /\ hist = <<>>
    /\ input' = fail
    /\ hist' = <<Run(store, _gather_notes_for_export_reading(store, fail, clock),
                     FALSE, {}, FALSE, clock)>>
    /\ UNCHANGED <<store, nextId, marked, playhead, view, clock, clipboard, feedback, disk,
                   pc, locals, steps, writes, output>>

NextRead == \E fail \in ReadFailures(store) : gather_with_failing_read(fail)

SpecRead == InitReview /\ [][NextRead]_vars

\* the clip-relative frame a frame of a node is reported under
clip_frame(node, frame) == IF node = SequencePaint THEN sourceFrame(frame) ELSE frame
\* the note lines of the blocks a report has for the frame n, none without a report
BlocksContent(text, n) ==
    IF text = None THEN {} ELSE {BlockLines(text, p) : p \in BlocksOf(text, n)}
\* the report of the same stores when every read succeeds
ReadAll(run) == _gather_notes_for_export(run.stores, FALSE, {}, FALSE, "", "", run.now).text

\* C17: when one read of a frame fails in the pipeline, every clip frame other
\* than the one of the failing read has in the report the block it has when
\* every read succeeds
C17OtherFramesStillReported ==
    hist # <<>> =>
       \A n \in ClipFrames \ {clip_frame(input.node, input.frame)} :
          BlocksContent(hist[1].text, n) = BlocksContent(ReadAll(hist[1]), n)

(***************************************************************************)
(* The results of the pipeline.                                            *)
(***************************************************************************)
\* _gather_notes_for_export when the clip has no paint node: return (None, 0, 0)
could_not_run == [text |-> None, total_notes |-> 0, total_frames |-> 0]
\* what a run returned
Result(run) ==
    [text |-> run.text, total_notes |-> run.total_notes, total_frames |-> run.total_frames]
\* the clip-relative frame holds a text that survives normalization, or a drawing
HasContent(st, f) ==
    LET es == ElementsOf(st, f)
    IN  HasDrawing(es) \/ \E t \in TextsOf(es) : normalize_note(t) # None

\* C18: the pipeline returns no report exactly when no frame of either store
\* holds a valid text or a drawing; that result differs from the one returned
\* when the clip has no paint node; a report has a "Frame n" block of a frame
\* that holds a valid text or a drawing
C18EmptyResultExactlyWhenNothing ==
    \A i \in 1..Len(hist) :
       Answered(hist[i]) =>
          /\ hist[i].text = None <=> ~\E f \in ClipFrames : HasContent(hist[i].stores, f)
          /\ hist[i].text = None => Result(hist[i]) # could_not_run
          /\ hist[i].text # None =>
                \E p \in Blocks(hist[i].text) : HasContent(hist[i].stores, hist[i].text[p].n)

(***************************************************************************)
(* wrap_text on its own.                                                   *)
(***************************************************************************)
\* the words a text is made of, at most
MaxTokens == 3

\* n times the character c
RECURSIVE Rep(_, _)
Rep(c, n) == IF n = 0 THEN <<>> ELSE <<c>> \o Rep(c, n - 1)

\* the words of the texts: the bullet, a letter, a word that is longer than
\* FORCE_BREAK_LENGTH once the bullet is glued to it, and one more than twice
\* as long as FORCE_BREAK_LENGTH
Tokens ==
    {<<"-">>, <<"a">>, Rep("a", FORCE_BREAK_LENGTH - 1), Rep("a", 2 * FORCE_BREAK_LENGTH + 1)}
\* what stands between two words
Separators == {<<" ">>, <<" ", " ">>, <<NL>>, <<TAB>>}
\* the texts of n words
RECURSIVE WordTexts(_)
WordTexts(n) ==
    IF n = 1 THEN Tokens
    ELSE {t \o s \o w : t \in WordTexts(n - 1), s \in Separators, w \in Tokens}
\* the values of max_length: the default, a longer limit and a short one
MaxLengths == {MAX_CHARS_PER_LINE, 2 * MAX_CHARS_PER_LINE, 3}

\* wrap_text(text, max_length) is called
wrap_note ==
    /\ ~output.called
    /\ output' = [called |-> TRUE, result |-> wrap_text(input.text, input.max_length)]
    /\ UNCHANGED <<store, nextId, marked, playhead, view, clock, clipboard, feedback, disk,
                   pc, locals, steps, writes, hist, input>>

InitWrap ==
    /\ store = NewSession.store
    /\ nextId = NewSession.nextId
    /\ playhead = ClipStart + 1
    /\ input \in [text : UNION {WordTexts(n) : n \in 1..MaxTokens}, max_length : MaxLengths]
    /\ InitHost

NextWrap == wrap_note

SpecWrap == InitWrap /\ [][NextWrap]_vars

\* the whitespace-separated words of a text, line breaks being whitespace
Words(text) == split_words(text)
\* the characters of a text that are no whitespace
RECURSIVE Squash(_)
Squash(text) ==
    IF text = <<>> THEN <<>>
    ELSE (IF IsSpace(text[1]) THEN <<>> ELSE <<text[1]>>) \o Squash(Tail(text))
\* the words of a line as they are wrapped: a leading lone "-" counts with the
\* word after it and the space between them
WrappedWords(line) ==
    LET words == Words(line)
    IN  IF Len(words) >= 2 /\ words[1] = <<"-">>
        THEN <<(<<"-", " ">> \o words[2])>> \o SubSeq(words, 3, Len(words))
        ELSE words
\* no line of the text that is longer than max_length has a word longer than
\* FORCE_BREAK_LENGTH
NoLongWord(text, max_length) ==
    LET lines == split_newlines(text)
    IN  \A i \in 1..Len(lines) :
           Len(lines[i]) > max_length
           => \A j \in 1..Len(WrappedWords(lines[i])) :
                 Len(WrappedWords(lines[i])[j]) <= FORCE_BREAK_LENGTH

\* C19, as stated: the words of wrap_text(text) are the words of text
C19SameWords ==
    output.called => Words(output.result) = Words(input.text)

\* C19, amended: the characters of wrap_text(text) that are no whitespace are
\* those of text, in order; and the words of wrap_text(text) are the words of
\* text when no line of text longer than max_length has a word longer than
\* FORCE_BREAK_LENGTH (a leading lone "-" counting with the word after it)
C19SameWordsUnlessForceBroken ==
    output.called =>
       /\ Squash(output.result) = Squash(input.text)
       /\ NoLongWord(input.text, input.max_length)
          => Words(output.result) = Words(input.text)

\* a text of three short words that was wrapped to more lines than it had
C19Witness ==
    /\ output.called
    /\ Len(Words(input.text)) = 3
    /\ NoLongWord(input.text, input.max_length)
    /\ Len(split_newlines(output.result)) > Len(split_newlines(input.text))

Max(a, b) == IF a >= b THEN a ELSE b
\* the text is one word, with or without a lone "-" and a space in front
SingleToken(text) ==
    /\ Len(Words(text)) \in {1, 2}
    /\ Len(Words(text)) = 2 => text = <<"-", " ">> \o Words(text)[2]
    /\ Len(Words(text)) = 1 => text = Words(text)[1]

\* C20: no line of the output of wrap_text is longer than the larger of
\* max_length and FORCE_BREAK_LENGTH; a single word longer than both, with or
\* without "- " in front, gives several lines of at most FORCE_BREAK_LENGTH
\* characters each
C20LinesWithinBound ==
    output.called =>
       LET lines == split_newlines(output.result)
       IN  /\ \A i \in 1..Len(lines) :
                 Len(lines[i]) <= Max(input.max_length, FORCE_BREAK_LENGTH)
           /\ (/\ SingleToken(input.text)
               /\ Len(input.text) > Max(input.max_length, FORCE_BREAK_LENGTH))
              => /\ Len(lines) >= 2
                 /\ \A i \in 1..Len(lines) : Len(lines[i]) <= FORCE_BREAK_LENGTH

\* the bullet and a word longer than both thresholds, cut into three lines
C20Witness ==
    /\ output.called
    /\ SingleToken(input.text)
    /\ Len(Words(input.text)) = 2
    /\ Len(input.text) > Max(input.max_length, FORCE_BREAK_LENGTH)
    /\ Len(split_newlines(output.result)) = 3


(***************************************************************************)
(* The cleanup operation on its own.                                       *)
(***************************************************************************)
\* one call of _clean_empty_paint_elements(source_paint_node, frame), ending as
\* mode says; a host call of the "Clear Drawings" block can fail only when the
\* block is reached
clean_frame(frame, mode) ==
    /\ ~output.called
    /\ mode # "none" => reaches_clear(store, SourcePaint, frame)
    /\ LET h == _clean_empty_paint_elements([store |-> store, playhead |-> playhead],
                                            SourcePaint, frame, mode)
       IN  /\ store' = h.store
           /\ playhead' = h.playhead
           /\ output' = [called |-> TRUE, result |-> h.store # store]
    /\ input' = [frame |-> frame, mode |-> mode, store |-> store, playhead |-> playhead]
    /\ UNCHANGED <<nextId, marked, view, clock, clipboard, feedback, disk, pc, locals,
                   steps, writes, hist>>

\* a saved session with the clip's group in view, the playhead on a clip frame
InitClean ==
    /\ \E s \in Sessions : store = s.store /\ nextId = s.nextId
    /\ playhead \in ClipFrames
    /\ input = <<>>
    /\ marked = {}
    /\ view = SourceGroup
    /\ clock = 0
    /\ clipboard = None
    /\ feedback = <<>>
    /\ disk = NoDisk
    /\ pc = "Idle"
    /\ locals = NoLocals
    /\ steps = <<>>
    /\ writes = 0
    /\ hist = <<>>
    /\ output = Unset

NextClean == \E frame \in ClipFrames, mode \in CleanModes : clean_frame(frame, mode)

SpecClean == InitClean /\ [][NextClean]_vars

\* no element of the FrameOrder carries non-blank text and none is a drawing
NothingToKeep(order_data) ==
    \A i \in 1..Len(order_data) :
       /\ ~(order_data[i].hasText /\ has_content(order_data[i].text))
       /\ order_data[i].kind \notin drawing_types

\* C21: after a call of the cleanup operation on a frame, the frame's elements
\* are deleted if and only if no element of the frame carried non-blank text
\* and none was a drawing; in every other case the store and the playhead are
\* what they were before the call
C21DeletesIffNothingToKeep ==
    output.called =>
       IF NothingToKeep(input.store[SourcePaint][input.frame])
       THEN store = [input.store EXCEPT ![SourcePaint][input.frame] = <<>>]
       ELSE store = input.store /\ playhead = input.playhead


\* C22: when the CheckAnnotations step has finished without a failing host
\* call, every frame of the clip that holds elements and that the step judged
\* to hold no valid annotation has been cleared, so that every frame still
\* holding elements is a valid one
C22InvalidFramesCleared ==
    (steps # <<>> /\ steps[Len(steps)] = "CheckAnnotations" /\ locals.faults = 0)
    => \A frame \in ClipFrames :
          store[SourcePaint][frame] # <<>> => is_valid_frame(store, frame)


(***************************************************************************)
(* The note dialog.                                                        *)
(***************************************************************************)
\* note_text.count(c)
RECURSIVE count(_, _)
count(text, c) ==
    IF text = <<>> THEN 0 ELSE Bit(Head(text) = c) + count(Tail(text), c)

\* the loop of count_note_lines over a FrameOrder, from element i on
RECURSIVE total_lines(_, _)
total_lines(order_data, i) ==
    IF i > Len(order_data) THEN 0
    ELSE (IF order_data[i].label = "note" /\ order_data[i].hasText
          THEN count(order_data[i].text, NL) + 1 ELSE 0)
         + total_lines(order_data, i + 1)

\* count_note_lines(frame): the paint node is the one get_source_paint_node
\* finds for the source at the playhead (view_frame)
count_note_lines(st, view_frame, frame) ==
    IF sourcesAtFrame(view_frame) = <<>> THEN 0
    ELSE total_lines(st[SourcePaint][frame], 1)

\* what the dialog can send
DialogTexts == UserTexts \cup {<<" ">>}

\* commands.setFrame: the user moves the playhead while the dialog is open
setFrame(frame) ==
    /\ pc = "Idle"
    /\ playhead # frame
    /\ playhead' = frame
    /\ UNCHANGED <<store, nextId, marked, view, clock, clipboard, feedback, disk, pc,
                   locals, steps, writes, hist, input, output>>

\* _on_text_entered: the dialog, opened on frame (_pending_note_frame), sends
\* contents.  input keeps the call and the state it was made in, output the
\* line_offset handed to _draw_note_with_outline_on_frame when it is called
_on_text_entered(contents, frame, convFail, nodesFail, fails) ==
    /\ pc = "Idle"
    /\ writes < MaxWrites
    /\ LET note_text == Strip(contents)
           r == _add_note_to_frame([store |-> store, nextId |-> nextId, marked |-> marked],
                                   note_text, frame, convFail, nodesFail, fails)
           existing_notes == count_note_lines(store, playhead, sourceFrame(frame))
           drawn == note_text # <<>> /\ sourcesAtFrame(frame) # <<>> /\ ~convFail /\ ~nodesFail
       IN  /\ (note_text = <<>> \/ sourcesAtFrame(frame) = <<>>)
              => ~convFail /\ ~nodesFail /\ fails = AllOk
           /\ convFail => ~nodesFail /\ fails = AllOk
           /\ nodesFail => fails = AllOk
           /\ Bit(convFail) + Bit(nodesFail) + Failures(fails) <= MaxFaults
           /\ store' = r.store
           /\ nextId' = r.nextId
           /\ marked' = r.marked
           /\ feedback' = IF note_text # <<>> THEN r.feedback \o <<Msg("Note added")>>
                          ELSE <<Msg("Empty note - cancelled")>>
           /\ writes' = IF r.nextId # nextId THEN writes + 1 ELSE writes
           /\ hist' = IF r.store # store THEN <<>> ELSE hist
           /\ output' = [called |-> TRUE,
                         result |-> IF drawn THEN <<existing_notes>> ELSE None]
    /\ input' = [contents |-> contents, frame |-> frame, store |-> store,
                 playhead |-> playhead]
    /\ UNCHANGED <<playhead, view, clock, clipboard, disk, pc, locals, steps>>

NextDialog ==
    \/ \E frame \in Playheads : setFrame(frame)
    \/ \E contents \in DialogTexts, frame \in Playheads, convFail \in BOOLEAN,
          nodesFail \in BOOLEAN, fails \in FailPatterns :
          _on_text_entered(contents, frame, convFail, nodesFail, fails)

SpecDialog == Init /\ [][NextDialog]_vars

\* the text lines of the note-labelled elements of a FrameOrder
NoteLines(order_data) ==
    LET notes == {i \in 1..Len(order_data) : order_data[i].label = "note"}
        lines(i) == Cardinality({j \in 1..Len(order_data[i].text) : order_data[i].text[j] = NL}) + 1
        RECURSIVE sum(_)
        sum(S) == IF S = {} THEN 0
                  ELSE LET i == CHOOSE x \in S : TRUE IN lines(i) + sum(S \ {i})
    IN  sum(notes)

\* C23: the line offset a submitted note is drawn with equals the number of
\* text lines of the note-labelled elements already on the note's frame of the
\* clip's source store, wherever the playhead is when the text is submitted
C23OffsetCountsFrameLines ==
    (output.called /\ output.result # None)
    => output.result[1] = NoteLines(input.store[SourcePaint][sourceFrame(input.frame)])


\* a note-labelled element was appended to a FrameOrder by the last submission
NoteAppended ==
    \E frame \in ClipFrames :
       LET before == input.store[SourcePaint][frame]
           after == store[SourcePaint][frame]
       IN  \E i \in (Len(before) + 1)..Len(after) : after[i].label = "note"

\* C26: after a submission from the note dialog, "Note added" has been shown
\* only if the submission appended a note-labelled element to a FrameOrder
C26NoteAddedOnlyIfAppended ==
    (output.called /\ "Note added" \in Shown_messages) => NoteAppended


(***************************************************************************)
(* The scale of a note's text elements.  Scales are in thousandths.        *)
(***************************************************************************)
BASE_SCALE == 1000
REFERENCE_HEIGHT == 1080

\* the image heights of the clip (sourceMediaInfo(source)["height"])
Heights == {540, 1080, 2160}

\* get_image_scale(source=source); infoFail: sourceMediaInfo raises
get_image_scale(image_height, infoFail) ==
    IF infoFail THEN BASE_SCALE
    ELSE (BASE_SCALE * REFERENCE_HEIGHT) \div image_height

\* the property values _draw_text_on_node sets on the element it creates,
\* called with the argument scale
text_properties(label, frame, text, scale) ==
    [label |-> label, text |-> text, startFrame |-> frame, scale |-> BASE_SCALE,
     duration |-> 1]

\* a note is added on frame of a clip whose images are input.height high;
\* output keeps the properties set on the note element
add_note_to_clip(note_text, frame, infoFail) ==
    /\ pc = "Idle"
    /\ writes < MaxWrites
    /\ playhead' = frame
    /\ LET r == _add_note_to_frame([store |-> store, nextId |-> nextId, marked |-> marked],
                                   note_text, frame, FALSE, FALSE, AllOk)
           scale == get_image_scale(input.height, infoFail)
           wrapped_note == wrap_text(<<"-", " ">> \o note_text, MAX_CHARS_PER_LINE)
       IN  /\ store' = r.store
           /\ nextId' = r.nextId
           /\ marked' = r.marked
           /\ feedback' = r.feedback
           /\ output' = [called |-> TRUE, infoFail |-> infoFail,
                         result |-> text_properties("note", sourceFrame(frame),
                                                    wrapped_note, scale)]
    /\ writes' = writes + 1
    /\ UNCHANGED <<view, clock, clipboard, disk, pc, locals, steps, hist, input>>

\* a new session on a clip of one of the heights
InitScale ==
    /\ store = NewSession.store
    /\ nextId = NewSession.nextId
    /\ playhead = ClipStart + 1
    /\ input \in [height : Heights]
    /\ InitHost

NextScale ==
    \E note_text \in UserTexts, frame \in GlobalFrames, infoFail \in BOOLEAN :
       add_note_to_clip(note_text, frame, infoFail)

SpecScale == InitScale /\ [][NextScale]_vars

\* C24: the scale stored on the text element of a note equals REFERENCE_HEIGHT
\* divided by the image height of the clip, whenever the height can be read
C24ScaleIsResolutionScale ==
    (output.called /\ ~output.infoFail)
    => output.result.scale = (BASE_SCALE * REFERENCE_HEIGHT) \div input.height


(***************************************************************************)
(* Display formatting and back.                                            *)
(***************************************************************************)
\* the user text input is stored as _add_note_to_frame stores it, and the
\* stored text is unwrapped as the export does
unwrap_wrapped_note ==
    /\ ~output.called
    /\ LET formatted_note == <<"-", " ">> \o input
           wrapped_note == wrap_text(formatted_note, MAX_CHARS_PER_LINE)
       IN  output' = [called |-> TRUE, result |-> unwrap_note(wrapped_note)]
    /\ UNCHANGED <<store, nextId, marked, playhead, view, clock, clipboard, feedback, disk,
                   pc, locals, steps, writes, hist, input>>

\* the words of the user texts: the bullet, a letter, a word that is longer
\* than FORCE_BREAK_LENGTH once the bullet is glued to it, and one that is longer
\* by itself
UserWords ==
    {<<"-">>, <<"a">>, Rep("a", FORCE_BREAK_LENGTH - 1), Rep("a", FORCE_BREAK_LENGTH + 1)}
\* the user texts of n words
RECURSIVE UserWordTexts(_)
UserWordTexts(n) ==
    IF n = 1 THEN UserWords
    ELSE {t \o s \o w : t \in UserWordTexts(n - 1), s \in Separators, w \in UserWords}

\* every text of at most MaxTokens words is entered
InitRound ==
    /\ store = NewSession.store
    /\ nextId = NewSession.nextId
    /\ playhead = ClipStart + 1
    /\ input \in UNION {UserWordTexts(n) : n \in 1..MaxTokens}
    /\ InitHost

NextRound == unwrap_wrapped_note

SpecRound == InitRound /\ [][NextRound]_vars

\* C25: unwrapping the wrapped, bulleted form of a user text gives the user
\* text back, up to the whitespace between its words
C25RoundTrip ==
    output.called => Words(output.result) = Words(input)


\* the note lines of a report, the placeholder of a frame not being one
NoteLinesOf(text) ==
    {p \in 1..Len(text) : text[p].k = "text" /\ text[p].t # Placeholder}

\* C27: the counts a run of the export pipeline returns with a report are the
\* number of note lines and the number of "Frame n" blocks of that report
C27CountsMatchReport ==
    \A i \in Reported :
       /\ hist[i].total_notes = Cardinality(NoteLinesOf(hist[i].text))
       /\ hist[i].total_frames = Cardinality(Blocks(hist[i].text))


\* save_review returned from its check for annotations with "No annotations
\* found", no host call having failed
NothingFound ==
    /\ Returned
    /\ steps[Len(steps)] = "CheckAnnotations"
    /\ "No annotations found" \in Shown_messages
    /\ locals.faults = 0

\* C28: save_review stops with "No annotations found" only when the export
\* pipeline, run on the same clip and stores, returns its empty result, i.e.
\* when no frame of either store holds a valid text or a drawing
C28AbortOnlyWhenPipelineEmpty ==
    NothingFound
    => /\ _gather_notes_for_export(store, FALSE, {}, FALSE, "", "", clock).text = None
       /\ \A f \in ClipFrames : ~HasContent(store, f)


\* C29: a call of the cleanup operation leaves the playhead where it was
\* before the call, however the call ends
C29PlayheadKept ==
    output.called => playhead = input.playhead


====
